---- MODULE Spec2Model ----
(***************************************************************************)
(* cc-cedict: the offline index build (build.js) and the runtime query     *)
(* engine (src/cedict.ts).                                                  *)
(*                                                                         *)
(* The build reads the parsed dictionary lines one by one (pass 1), links  *)
(* the queued variant entries (pass 2) and writes three artifacts.  The     *)
(* runtime loads the artifacts once and answers getByWord queries.          *)
(*                                                                         *)
(* Conventions.  A parsed line is the 6-tuple parseLine returns,            *)
(*   <<traditional, simplified, pinyin, meanings, variant_of, classifiers>> *)
(* so JS index k is TLA+ index k+1.  Entry Table positions keep their JS    *)
(* value (0-based): position n is all[n+1].  The string keys the code joins *)
(* with "_" are modelled as tuples of the joined parts.                     *)
(***************************************************************************)
EXTENDS Integers, Sequences, FiniteSets, TLC

VARIABLES
    lines,          \* the parsed lines of cedict_ts.u8, in file order
    pc,             \* position of the program
    cursor,         \* pass 1: index of the next line
    qcursor,        \* pass 2: index of the next queued entry
    all,            \* Entry Table (build.js:104)
    lineToNum,      \* key -> Entry Table position (build.js:103)
    traditional,    \* Character Index by traditional headword (build.js:105)
    simplified,     \* Character Index by simplified headword (build.js:106)
    variantQueue,   \* entries with variant references (build.js:102)
    written,        \* artifacts written by this run
    diagnostic,     \* what error() was last called with
    data,           \* this.data of the runtime (cedict.ts:59)
    query,          \* arguments of the last getByWord call
    result,         \* what the last getByWord call returned
    status,         \* data/status.json: "old" or "updated" by this run
    text,           \* the text handed to the parser
    parsed          \* what the parser returned for it

vars == <<lines, pc, cursor, qcursor, all, lineToNum, traditional, simplified,
          variantQueue, written, diagnostic, data, query, result,
          status, text, parsed>>

\* What neither extractAndProcessZip nor the runtime touches.
sideVars == <<status, text, parsed>>

buildVars == <<all, lineToNum, traditional, simplified, variantQueue>>

-----------------------------------------------------------------------------
(* Bounds and input alphabet *)

MaxLines == 2

\* JS null (a variant reference without pinyin bracket, a missing filter).
JsNull == "<null>"

\* JS undefined (the simplified form of a line with a single headword).
JsUndefined == "<undefined>"

\* A JS object without own properties.
EmptyObject == <<>>

\* The classifier triple of the classifier-carrying line.
Ge == <<"C", "C", "ge4">>

\* The dictionary lines the model draws its input from, as parseLine returns
\* them; <<>> stands for a line parseLine rejects (null: blank, comment, no
\* '/' body, no pinyin bracket).  'A B [] /open/' comes back with an empty
\* pinyin and 'A [zhang1] /open/' without simplified form.
LineSet ==
    { <<"A", "A", "zhang1", <<"open">>, <<>>, <<Ge>>>>,
      <<"A", "A", "Zhang1", <<"surname">>, <<>>, <<>>>>,
      <<"A", "B", "zhang1", <<"sheet", "open">>, <<>>, <<>>>>,
      <<"B", "A", "zhang1", <<>>, << <<"A", "A", "zhang1">> >>, <<>>>>,
      <<"B", "B", "Zhang1", <<"old">>, << <<"A", "A", "zhang1">> >>, <<>>>>,
      <<"A", "B", "zhang1", <<"alt">>, << <<"A", "A", "zhang1">> >>, <<>>>>,
      <<"A", "A", "Zhang1", <<"erhua">>, << <<"A", "A", "zhang1">> >>, <<>>>>,
      <<"B", "B", "zhang1", <<"nopin">>, << <<"A", "A", JsNull>> >>, <<>>>>,
      <<"B", "B", "zhang1", <<"half">>, << <<"", "A", "zhang1">> >>, <<Ge>>>>,
      <<"B", "A", "Zhang1", <<>>,
            << <<"A", "A", "zhang1">>, <<"A", "B", "zhang1">> >>, <<>>>>,
      <<"A", "B", "", <<"open">>, <<>>, <<>>>>,
      <<"A", JsUndefined, "zhang1", <<"open">>, <<>>, <<>>>>,
      <<>> }

Inputs == UNION { [1..n -> LineSet] : n \in 1..MaxLines }

-----------------------------------------------------------------------------
(* JS helpers *)

\* !x for the strings and nulls of the model.
Falsy(x) == x = "" \/ x = JsNull \/ x = JsUndefined

\* String(x) when x is used as a property key.
PropertyKey(x) == IF x = JsNull THEN "null" ELSE x

\* obj with obj[key] = value.
SetProp(obj, key, value) ==
    [k \in DOMAIN obj \cup {key} |-> IF k = key THEN value ELSE obj[k]]

-----------------------------------------------------------------------------
(* build.js *)

\* `${x[0]}_${x[1]}_${x[2]}`
KeyOf(x) == <<x[1], x[2], x[3]>>

\* The mutant of PushVariantTo that files every registration as a base member.
PushVariantToAllBase(val, orig, lineToNumArg, arr, field) ==
    IF \/ Falsy(orig[field])
       \/ (orig /= val /\ PropertyKey(orig[field]) \notin DOMAIN arr
              /\ (Falsy(orig[3]) \/ Falsy(val[field]) \/ Falsy(val[3])))
       \/ Falsy(val[field])
       \/ Falsy(val[3])
    THEN arr
    ELSE LET hw == orig[field]
             py == PropertyKey(orig[3])
             pinyinIndex == IF hw \in DOMAIN arr THEN arr[hw] ELSE EmptyObject
             bucket == IF py \in DOMAIN pinyinIndex THEN pinyinIndex[py]
                       ELSE << <<>>, <<>> >>
             pushed == [bucket EXCEPT
                          ![1] = Append(@, lineToNumArg[KeyOf(val)])]
         IN SetProp(arr, hw, SetProp(pinyinIndex, py, pushed))

\* The mutant of PushVariantTo that links a variant only to a headword that
\* has a pinyin index already.
PushVariantToExisting(val, orig, lineToNumArg, arr, field) ==
    IF \/ Falsy(orig[field])
       \/ (orig /= val /\ PropertyKey(orig[field]) \notin DOMAIN arr)
       \/ Falsy(val[field])
       \/ Falsy(val[3])
    THEN arr
    ELSE LET hw == orig[field]
             py == PropertyKey(orig[3])
             pinyinIndex == IF hw \in DOMAIN arr THEN arr[hw] ELSE EmptyObject
             bucket == IF py \in DOMAIN pinyinIndex THEN pinyinIndex[py]
                       ELSE << <<>>, <<>> >>
             pushed == [bucket EXCEPT
                          ![IF val /= orig THEN 2 ELSE 1] =
                              Append(@, lineToNumArg[KeyOf(val)])]
         IN SetProp(arr, hw, SetProp(pinyinIndex, py, pushed))

\* pushVariantTo: arr with val's position pushed into the bucket of orig's
\* headword (field) and pinyin: the base sequence when orig is val itself,
\* the variant sequence otherwise.  orig !== val compares references; an
\* entry (6-tuple) and a reference (3-tuple) are never equal as values.
PushVariantTo(val, orig, lineToNumArg, arr, field) ==
    IF \/ Falsy(orig[field])
       \/ (orig /= val /\ PropertyKey(orig[field]) \notin DOMAIN arr
              /\ (Falsy(orig[3]) \/ Falsy(val[field]) \/ Falsy(val[3])))
       \/ Falsy(val[field])
       \/ Falsy(val[3])
    THEN arr
    ELSE LET hw == orig[field]
             py == PropertyKey(orig[3])
             pinyinIndex == IF hw \in DOMAIN arr THEN arr[hw] ELSE EmptyObject
             bucket == IF py \in DOMAIN pinyinIndex THEN pinyinIndex[py]
                       ELSE << <<>>, <<>> >>
             pushed == [bucket EXCEPT
                          ![IF val /= orig THEN 2 ELSE 1] =
                              Append(@, lineToNumArg[KeyOf(val)])]
         IN SetProp(arr, hw, SetProp(pinyinIndex, py, pushed))

\* The mutant of Skipped that lets through every line parseLine returns.
SkippedOnlyNull(parsedLine) == parsedLine = <<>>

\* The line loop's continue (build.js:110).
Skipped(parsedLine) ==
    IF parsedLine = <<>> THEN TRUE
    ELSE Falsy(parsedLine[1]) \/ Falsy(parsedLine[2]) \/ Falsy(parsedLine[3])

\* The inner loop of pass 2 (build.js:127-130) over the references from n on.
RECURSIVE LinkVariants(_, _, _, _, _)
LinkVariants(parsedLine, n, lineToNumArg, arr, field) ==
    IF n > Len(parsedLine[5]) THEN arr
    ELSE LinkVariants(parsedLine, n + 1, lineToNumArg,
             PushVariantTo(parsedLine, parsedLine[5][n], lineToNumArg, arr, field),
             field)

Init ==
    /\ lines \in Inputs
    /\ pc = "pass1"
    /\ cursor = 1
    /\ qcursor = 1
    /\ all = <<>>
    /\ lineToNum = EmptyObject
    /\ traditional = EmptyObject
    /\ simplified = EmptyObject
    /\ variantQueue = <<>>
    /\ written = {}
    /\ diagnostic = [kind |-> "none"]
    /\ data = [kind |-> "none"]
    /\ query = [kind |-> "none"]
    /\ result = [kind |-> "none"]
    /\ status = "old"
    /\ text = [kind |-> "none"]
    /\ parsed = [kind |-> "none"]

\* One iteration of the line loop that skips the line (build.js:109-110).
SkipLine ==
    /\ pc = "pass1"
    /\ cursor <= Len(lines)
    /\ Skipped(lines[cursor])
    /\ cursor' = cursor + 1
    /\ UNCHANGED <<sideVars, lines, pc, qcursor, buildVars, written, diagnostic,
                   data, query, result>>

\* One iteration of the line loop on an accepted line whose key is new
\* (build.js:112-123).
RegisterLine ==
    /\ pc = "pass1"
    /\ cursor <= Len(lines)
    /\ ~Skipped(lines[cursor])
    /\ LET parsedLine == lines[cursor]
           key == KeyOf(parsedLine)
           num == SetProp(lineToNum, key, Len(all))
       IN /\ key \notin DOMAIN lineToNum
          /\ variantQueue' = IF Len(parsedLine[5]) > 0
                             THEN Append(variantQueue, parsedLine)
                             ELSE variantQueue
          /\ lineToNum' = num
          /\ traditional' = PushVariantTo(parsedLine, parsedLine, num, traditional, 1)
          /\ simplified' = PushVariantTo(parsedLine, parsedLine, num, simplified, 2)
          /\ all' = Append(all, parsedLine)
    /\ cursor' = cursor + 1
    /\ UNCHANGED <<sideVars, lines, pc, qcursor, written, diagnostic, data, query, result>>

\* The mutant of DuplicateKey that overwrites the position of the key and
\* goes on instead of throwing.
DuplicateKeyOverwrites ==
    /\ pc = "pass1"
    /\ cursor <= Len(lines)
    /\ ~Skipped(lines[cursor])
    /\ LET parsedLine == lines[cursor]
           key == KeyOf(parsedLine)
           num == SetProp(lineToNum, key, Len(all))
       IN /\ key \in DOMAIN lineToNum
          /\ variantQueue' = IF Len(parsedLine[5]) > 0
                             THEN Append(variantQueue, parsedLine)
                             ELSE variantQueue
          /\ lineToNum' = num
          /\ traditional' = PushVariantTo(parsedLine, parsedLine, num, traditional, 1)
          /\ simplified' = PushVariantTo(parsedLine, parsedLine, num, simplified, 2)
          /\ all' = Append(all, parsedLine)
    /\ cursor' = cursor + 1
    /\ UNCHANGED <<sideVars, lines, pc, qcursor, written, diagnostic, data, query, result>>

\* The iteration that meets a key already in lineToNum: throw key
\* (build.js:119), caught and logged at build.js:136-138.
DuplicateKey ==
    /\ pc = "pass1"
    /\ cursor <= Len(lines)
    /\ ~Skipped(lines[cursor])
    /\ LET parsedLine == lines[cursor]
           key == KeyOf(parsedLine)
       IN /\ key \in DOMAIN lineToNum
          /\ variantQueue' = IF Len(parsedLine[5]) > 0
                             THEN Append(variantQueue, parsedLine)
                             ELSE variantQueue
          /\ diagnostic' = [kind |-> "thrown", value |-> key]
    /\ pc' = "failed"
    /\ UNCHANGED <<sideVars, lines, cursor, qcursor, all, lineToNum, traditional,
                   simplified, written, data, query, result>>

\* The line loop ends.
EndPass1 ==
    /\ pc = "pass1"
    /\ cursor > Len(lines)
    /\ pc' = "pass2"
    /\ UNCHANGED <<sideVars, lines, cursor, qcursor, buildVars, written, diagnostic,
                   data, query, result>>

\* One iteration of the outer loop of pass 2 (build.js:126-131).
LinkQueued ==
    /\ pc = "pass2"
    /\ qcursor <= Len(variantQueue)
    /\ LET parsedLine == variantQueue[qcursor]
       IN /\ traditional' = LinkVariants(parsedLine, 1, lineToNum, traditional, 1)
          /\ simplified' = LinkVariants(parsedLine, 1, lineToNum, simplified, 2)
    /\ qcursor' = qcursor + 1
    /\ UNCHANGED <<sideVars, lines, pc, cursor, all, lineToNum, variantQueue, written,
                   diagnostic, data, query, result>>

\* The artifact the next writeFileSync writes (build.js:133-135).
NextArtifact ==
    IF "all" \notin written THEN "all"
    ELSE IF "traditional" \notin written THEN "traditional"
    ELSE "simplified"

\* One writeFileSync that succeeds.
WriteArtifact ==
    /\ pc = "pass2"
    /\ qcursor > Len(variantQueue)
    /\ written' = written \cup {NextArtifact}
    /\ pc' = IF NextArtifact = "simplified" THEN "written" ELSE "pass2"
    /\ UNCHANGED <<sideVars, lines, cursor, qcursor, buildVars, diagnostic, data,
                   query, result>>

\* One writeFileSync that throws (caught and logged at build.js:136-138).
WriteFails ==
    /\ pc = "pass2"
    /\ qcursor > Len(variantQueue)
    /\ diagnostic' = [kind |-> "thrown", value |-> <<"fs", NextArtifact>>]
    /\ pc' = "failed"
    /\ UNCHANGED <<sideVars, lines, cursor, qcursor, buildVars, written, data,
                   query, result>>

-----------------------------------------------------------------------------
(* The compacted layout of the entry table (data.d.ts, AllDataStructure) *)

\* The position of x in seq, 0-based as a JS array index.
IndexOf(seq, x) == (CHOOSE i \in 1..Len(seq) : seq[i] = x) - 1

\* seq followed by the members of more that are not in it yet.
RECURSIVE AppendDistinct(_, _, _)
AppendDistinct(seq, more, n) ==
    IF n > Len(more) THEN seq
    ELSE AppendDistinct(
             IF \E i \in 1..Len(seq) : seq[i] = more[n] THEN seq
             ELSE Append(seq, more[n]),
             more, n + 1)

\* The distinct triples of field f of the entries from n on, first seen first.
RECURSIVE LookupTable(_, _, _, _)
LookupTable(entries, f, n, table) ==
    IF n > Len(entries) THEN table
    ELSE LookupTable(entries, f, n + 1, AppendDistinct(table, entries[n][f], 1))

\* An entry with its triples replaced by lookup-table indices and a single
\* meaning collapsed to a bare string.
CompactEntry(e, variantLookup, classifierLookup) ==
    << e[1], e[2], e[3],
       IF Len(e[4]) = 1 THEN [str |-> e[4][1]] ELSE [arr |-> e[4]],
       [i \in 1..Len(e[5]) |-> IndexOf(variantLookup, e[5][i])],
       [i \in 1..Len(e[6]) |-> IndexOf(classifierLookup, e[6][i])] >>

\* The default export of data/all.js in the compacted layout.
CompactAllData(entries) ==
    LET variantLookup == LookupTable(entries, 5, 1, <<>>)
        classifierLookup == LookupTable(entries, 6, 1, <<>>)
    IN [all |-> [i \in 1..Len(entries) |->
                    CompactEntry(entries[i], variantLookup, classifierLookup)],
        variantLookup |-> variantLookup,
        classifierLookup |-> classifierLookup]

-----------------------------------------------------------------------------
(* src/cedict.ts *)

\* The property names every plain object inherits from Object.prototype;
\* each names a function or, for __proto__, the prototype object.
ObjectPrototype ==
    {"constructor", "toString", "toLocaleString", "valueOf", "hasOwnProperty",
     "isPrototypeOf", "propertyIsEnumerable", "__proto__"}

\* Whether obj[key] is truthy: an own bucket or sub-object, or an inherited
\* member.
TruthyProp(obj, key) == key \in DOMAIN obj \/ key \in ObjectPrototype

\* String.prototype.toLowerCase on the strings of the model.
ToLowerCase(s) == IF s = "Zhang1" THEN "zhang1" ELSE s

\* The first UTF-16 code unit of the strings that are compared; no two of
\* them start alike, so it decides a < b.
CodeUnit(s) ==
    CASE s = "Zhang1" -> 90
      [] s = "constructor" -> 99
      [] s = "null" -> 110
      [] s = "zhang1" -> 122

\* a < b on strings.
StrLess(a, b) == CodeUnit(a) < CodeUnit(b)

\* x modulo 2^32, written with 2^16 factors.
ToUint32(x) == x - (((x \div 65536) \div 65536) * 65536) * 65536

\* new Uint32Array(indices)
Uint32Array(indices) == [i \in 1..Len(indices) |-> ToUint32(indices[i])]

\* convertToTypedArrays
ConvertToTypedArrays(index) ==
    [char \in DOMAIN index |->
        [pinyin \in DOMAIN index[char] |->
            << Uint32Array(index[char][pinyin][1]),
               Uint32Array(index[char][pinyin][2]) >>]]

\* The default export of data/all.js as build.js writes it: the plain array
\* of parsed lines, with the meanings always an array and the variant and
\* classifier triples inline. The array has no property named all,
\* variantLookup or classifierLookup.
LegacyAllData(entries) ==
    [items |-> [i \in 1..Len(entries) |->
                  << entries[i][1], entries[i][2], entries[i][3],
                     [arr |-> entries[i][4]], entries[i][5], entries[i][6] >>]]

\* What the constructor stores in this.data: allData.all || allData,
\* allData.variantLookup || [], allData.classifierLookup || [].
Constructor(allData, traditionalData, simplifiedData) ==
    [kind |-> "data",
     all |-> IF "all" \in DOMAIN allData THEN allData.all ELSE allData.items,
     traditional |-> ConvertToTypedArrays(traditionalData),
     simplified |-> ConvertToTypedArrays(simplifiedData),
     variantLookup |-> IF "variantLookup" \in DOMAIN allData
                       THEN allData.variantLookup ELSE <<>>,
     classifierLookup |-> IF "classifierLookup" \in DOMAIN allData
                          THEN allData.classifierLookup ELSE <<>>]

\* Whether table[idx] is undefined, so that reading lookup[0] throws. An
\* empty table has no element under any key, be it a position or the
\* string an inline triple coerces to ("A,A,zhang1").
Undefined(table, idx) == Len(table) = 0 \/ idx + 1 \notin 1..Len(table)

\* Whether expandValue throws a TypeError on val.
ExpandThrows(d, val) ==
    \/ \E i \in 1..Len(val[5]) : Undefined(d.variantLookup, val[5][i])
    \/ \E i \in 1..Len(val[6]) : Undefined(d.classifierLookup, val[6][i])

\* expandValue
ExpandValue(d, val, isVariant) ==
    [traditional |-> val[1],
     simplified |-> val[2],
     pinyin |-> val[3],
     english |-> IF "str" \in DOMAIN val[4] THEN <<val[4].str>> ELSE val[4].arr,
     classifiers |-> [i \in 1..Len(val[6]) |->
                        LET lookup == d.classifierLookup[val[6][i] + 1]
                        IN <<lookup[1], lookup[2], lookup[3]>>],
     variant_of |-> [i \in 1..Len(val[5]) |->
                        LET lookup == d.variantLookup[val[5][i] + 1]
                        IN [traditional |-> lookup[1],
                            simplified |-> lookup[2],
                            pinyin |-> lookup[3]]],
     is_variant |-> isVariant]

\* The members of a sequence.
Range(seq) == {seq[i] : i \in 1..Len(seq)}

\* The mutant of ProcessKey that marks every gathered position as a variant.
ProcessKeyMarksGathered(acc, wordSource, key, allowVariants, mergeCases) ==
    IF key \notin DOMAIN wordSource THEN [acc EXCEPT !.threw = TRUE]
    ELSE LET baseItems == wordSource[key][1]
             variantItems == wordSource[key][2]
             items == IF allowVariants /\ Len(variantItems) > 0
                      THEN baseItems \o variantItems
                      ELSE baseItems
             convertedKey == IF mergeCases THEN ToLowerCase(key) ELSE key
             rm == acc.resultsMap
             at == {i \in 1..Len(rm) : rm[i].key = convertedKey}
         IN [acc EXCEPT
               !.variantMap = @ \cup Range(items),
               !.resultsMap =
                   IF at = {}
                   THEN Append(rm, [key |-> convertedKey, indices |-> items])
                   ELSE [i \in 1..Len(rm) |->
                           IF i \in at
                           THEN [rm[i] EXCEPT !.indices = @ \o items]
                           ELSE rm[i]]]

\* One iteration of the key loop of processResults.  Destructuring an
\* inherited member (a function) throws: it is not iterable.
ProcessKey(acc, wordSource, key, allowVariants, mergeCases) ==
    IF key \notin DOMAIN wordSource THEN [acc EXCEPT !.threw = TRUE]
    ELSE LET baseItems == wordSource[key][1]
             variantItems == wordSource[key][2]
             items == IF allowVariants /\ Len(variantItems) > 0
                      THEN baseItems \o variantItems
                      ELSE baseItems
             convertedKey == IF mergeCases THEN ToLowerCase(key) ELSE key
             rm == acc.resultsMap
             at == {i \in 1..Len(rm) : rm[i].key = convertedKey}
         IN [acc EXCEPT
               !.variantMap = @ \cup Range(variantItems),
               !.resultsMap =
                   IF at = {}
                   THEN Append(rm, [key |-> convertedKey, indices |-> items])
                   ELSE [i \in 1..Len(rm) |->
                           IF i \in at
                           THEN [rm[i] EXCEPT !.indices = @ \o items]
                           ELSE rm[i]]]

RECURSIVE ProcessFrom(_, _, _, _, _, _)
ProcessFrom(acc, wordSource, keysToCheck, n, allowVariants, mergeCases) ==
    IF n > Len(keysToCheck) \/ acc.threw THEN acc
    ELSE ProcessFrom(
             ProcessKey(acc, wordSource, keysToCheck[n], allowVariants, mergeCases),
             wordSource, keysToCheck, n + 1, allowVariants, mergeCases)

\* processResults: resultsMap in insertion order, variantMap as the set of
\* the positions marked true.
ProcessResults(wordSource, keysToCheck, allowVariants, mergeCases) ==
    ProcessFrom([resultsMap |-> <<>>, variantMap |-> {}, threw |-> FALSE],
                wordSource, keysToCheck, 1, allowVariants, mergeCases)

\* The mutant of FormatIndex that does not skip the marked positions.
FormatIndexNoSkip(d, itemMap, idx, variantMap, allowVariants, mergeCases) ==
    LET isVariant == idx \in variantMap
    IN IF FALSE THEN itemMap
       ELSE LET expanded == ExpandValue(d, d.all[idx + 1], isVariant)
                item == IF mergeCases
                        THEN [expanded EXCEPT !.pinyin = ToLowerCase(@)]
                        ELSE expanded
                at == {i \in 1..Len(itemMap) :
                          /\ itemMap[i].traditional = item.traditional
                          /\ itemMap[i].pinyin = item.pinyin}
            IN IF at /= {}
               THEN [i \in 1..Len(itemMap) |->
                       IF i \in at
                       THEN [itemMap[i] EXCEPT !.english = @ \o item.english]
                       ELSE itemMap[i]]
               ELSE Append(itemMap, item)

\* The mutant of FormatIndex that leaves the pinyin of an item as it is.
FormatIndexKeepsCase(d, itemMap, idx, variantMap, allowVariants, mergeCases) ==
    LET isVariant == idx \in variantMap
    IN IF ~allowVariants /\ isVariant THEN itemMap
       ELSE LET expanded == ExpandValue(d, d.all[idx + 1], isVariant)
                item == expanded
                at == {i \in 1..Len(itemMap) :
                          /\ itemMap[i].traditional = item.traditional
                          /\ itemMap[i].pinyin = item.pinyin}
            IN IF at /= {}
               THEN [i \in 1..Len(itemMap) |->
                       IF i \in at
                       THEN [itemMap[i] EXCEPT !.english = @ \o item.english]
                       ELSE itemMap[i]]
               ELSE Append(itemMap, item)

\* The mutant of FormatIndex that keeps the fields of the last item of a
\* dedupKey instead of the first.
FormatIndexKeepsLast(d, itemMap, idx, variantMap, allowVariants, mergeCases) ==
    LET isVariant == idx \in variantMap
    IN IF ~allowVariants /\ isVariant THEN itemMap
       ELSE LET expanded == ExpandValue(d, d.all[idx + 1], isVariant)
                item == IF mergeCases
                        THEN [expanded EXCEPT !.pinyin = ToLowerCase(@)]
                        ELSE expanded
                at == {i \in 1..Len(itemMap) :
                          /\ itemMap[i].traditional = item.traditional
                          /\ itemMap[i].pinyin = item.pinyin}
            IN IF at /= {}
               THEN [i \in 1..Len(itemMap) |->
                       IF i \in at
                       THEN [item EXCEPT !.english = itemMap[i].english \o @]
                       ELSE itemMap[i]]
               ELSE Append(itemMap, item)

\* One iteration of the index loop of formatResults on itemMap (the kept
\* items in insertion order; an item's dedupKey is its traditional and pinyin).
FormatIndex(d, itemMap, idx, variantMap, allowVariants, mergeCases) ==
    LET isVariant == idx \in variantMap
    IN IF ~allowVariants /\ isVariant THEN itemMap
       ELSE LET expanded == ExpandValue(d, d.all[idx + 1], isVariant)
                item == IF mergeCases
                        THEN [expanded EXCEPT !.pinyin = ToLowerCase(@)]
                        ELSE expanded
                at == {i \in 1..Len(itemMap) :
                          /\ itemMap[i].traditional = item.traditional
                          /\ itemMap[i].pinyin = item.pinyin}
            IN IF at /= {}
               THEN [i \in 1..Len(itemMap) |->
                       IF i \in at
                       THEN [itemMap[i] EXCEPT !.english = @ \o item.english]
                       ELSE itemMap[i]]
               ELSE Append(itemMap, item)

RECURSIVE FormatFrom(_, _, _, _, _, _, _)
FormatFrom(d, itemMap, indices, n, variantMap, allowVariants, mergeCases) ==
    IF n > Len(indices) THEN itemMap
    ELSE FormatFrom(d,
             FormatIndex(d, itemMap, indices[n], variantMap, allowVariants, mergeCases),
             indices, n + 1, variantMap, allowVariants, mergeCases)

\* The mutant of InsertSorted that inserts the item before the members with
\* an equal pinyin.
InsertSortedBeforeEqual(sorted, item) ==
    LET before == {i \in 1..Len(sorted) : StrLess(sorted[i].pinyin, item.pinyin)}
        k == IF before = {} THEN 0
             ELSE CHOOSE i \in before : \A j \in before : j <= i
    IN SubSeq(sorted, 1, k) \o <<item>> \o SubSeq(sorted, k + 1, Len(sorted))

\* sorted with item inserted after the members that are not greater.
InsertSorted(sorted, item) ==
    LET before == {i \in 1..Len(sorted) : ~StrLess(item.pinyin, sorted[i].pinyin)}
        k == IF before = {} THEN 0
             ELSE CHOOSE i \in before : \A j \in before : j <= i
    IN SubSeq(sorted, 1, k) \o <<item>> \o SubSeq(sorted, k + 1, Len(sorted))

\* itemsArray.sort by pinyin, ascending by code unit; Array.prototype.sort
\* is stable.
RECURSIVE SortByPinyin(_, _, _)
SortByPinyin(items, n, sorted) ==
    IF n > Len(items) THEN sorted
    ELSE SortByPinyin(items, n + 1, InsertSorted(sorted, items[n]))

\* The itemsArray of one grouping key.
GroupItems(d, indices, variantMap, allowVariants, mergeCases) ==
    SortByPinyin(
        FormatFrom(d, <<>>, indices, 1, variantMap, allowVariants, mergeCases),
        1, <<>>)

\* Whether some expansion of formatResults throws.
FormatThrows(d, resultsMap, variantMap, allowVariants) ==
    \E g \in 1..Len(resultsMap) : \E i \in 1..Len(resultsMap[g].indices) :
        LET idx == resultsMap[g].indices[i]
        IN /\ allowVariants \/ idx \notin variantMap
           /\ \/ idx + 1 \notin 1..Len(d.all)
              \/ ExpandThrows(d, d.all[idx + 1])

\* The groups of formatResults, in the iteration order of resultsMap.
FormatGroups(d, resultsMap, variantMap, allowVariants, mergeCases) ==
    [g \in 1..Len(resultsMap) |->
        [key |-> resultsMap[g].key,
         items |-> GroupItems(d, resultsMap[g].indices, variantMap,
                              allowVariants, mergeCases)]]

\* The mutant of Flatten that puts the items of a later group first.
RECURSIVE FlattenLaterFirst(_, _)
FlattenLaterFirst(groups, n) ==
    IF n > Len(groups) THEN <<>>
    ELSE FlattenLaterFirst(groups, n + 1) \o groups[n].items

RECURSIVE Flatten(_, _)
Flatten(groups, n) ==
    IF n > Len(groups) THEN <<>>
    ELSE groups[n].items \o Flatten(groups, n + 1)

\* formatResults
FormatResults(d, resultsMap, variantMap, allowVariants, asObject, mergeCases) ==
    IF FormatThrows(d, resultsMap, variantMap, allowVariants)
    THEN [kind |-> "throws"]
    ELSE LET groups == FormatGroups(d, resultsMap, variantMap,
                                    allowVariants, mergeCases)
         IN IF asObject THEN [kind |-> "object", groups |-> groups]
            ELSE [kind |-> "array", items |-> Flatten(groups, 1)]

\* The members of a set of strings in ascending order: Object.keys followed
\* by the sort of cedict.ts:241-243 (the keys are distinct, so the order of
\* Object.keys does not show).
\* The mutant of SortedKeys that sorts descending.
RECURSIVE SortedKeysDescending(_)
SortedKeysDescending(S) ==
    IF S = {} THEN <<>>
    ELSE LET m == CHOOSE x \in S : \A y \in S : ~StrLess(x, y)
         IN <<m>> \o SortedKeysDescending(S \ {m})

RECURSIVE SortedKeys(_)
SortedKeys(S) ==
    IF S = {} THEN <<>>
    ELSE LET m == CHOOSE x \in S : \A y \in S : ~StrLess(y, x)
         IN <<m>> \o SortedKeys(S \ {m})

\* The mutant of KeysToCheck that does not fold the keys of the headword
\* before comparing them with the folded filter.
KeysToCheckUnfolded(wordSource, pinyin, caseSensitiveSearch) ==
    IF ~Falsy(pinyin)
    THEN IF caseSensitiveSearch
         THEN IF TruthyProp(wordSource, pinyin) THEN <<pinyin>> ELSE <<>>
         ELSE SortedKeys({key \in DOMAIN wordSource :
                             key = ToLowerCase(pinyin)})
    ELSE SortedKeys(DOMAIN wordSource)

\* keysToCheck after the sort (cedict.ts:226-243).
KeysToCheck(wordSource, pinyin, caseSensitiveSearch) ==
    IF ~Falsy(pinyin)
    THEN IF caseSensitiveSearch
         THEN IF TruthyProp(wordSource, pinyin) THEN <<pinyin>> ELSE <<>>
         ELSE SortedKeys({key \in DOMAIN wordSource :
                             ToLowerCase(key) = ToLowerCase(pinyin)})
    ELSE SortedKeys(DOMAIN wordSource)

\* getByWord: [kind |-> "null"] for null, [kind |-> "throws"] for a TypeError
\* that leaves the call, the formatted results otherwise.
GetByWord(d, isSimplified, word, pinyin, config) ==
    LET dataSource == IF isSimplified THEN d.simplified ELSE d.traditional
    IN IF ~TruthyProp(dataSource, word) THEN [kind |-> "null"]
       ELSE LET wordSource == IF word \in DOMAIN dataSource
                              THEN dataSource[word]
                              ELSE EmptyObject  \* a function: no own keys
                keysToCheck == KeysToCheck(wordSource, pinyin,
                                           config.caseSensitiveSearch)
                processed == ProcessResults(wordSource, keysToCheck,
                                 config.allowVariants, config.mergeCases)
            IN IF processed.threw THEN [kind |-> "throws"]
               ELSE LET formattedResults ==
                            FormatResults(d, processed.resultsMap,
                                processed.variantMap, config.allowVariants,
                                config.asObject, config.mergeCases)
                    IN IF formattedResults.kind = "throws" THEN formattedResults
                       ELSE IF (IF formattedResults.kind = "array"
                                THEN Len(formattedResults.items)
                                ELSE Len(formattedResults.groups)) /= 0
                            THEN formattedResults
                            ELSE [kind |-> "null"]

\* The query inputs of the model.
Words == {"A", "B", ""}
Filters == {JsNull, "Zhang1", "zhang1", "constructor"}
Configs == [caseSensitiveSearch : BOOLEAN, mergeCases : BOOLEAN,
            asObject : BOOLEAN, allowVariants : BOOLEAN]

\* The runtime is constructed on the artifacts of a completed build.
Load ==
    /\ pc = "written"
    /\ data' = Constructor(CompactAllData(all), traditional, simplified)
    /\ pc' = "loaded"
    /\ UNCHANGED <<sideVars, lines, cursor, qcursor, buildVars, written, diagnostic,
                   query, result>>

\* One call of getBySimplified or getByTraditional.
Query ==
    /\ pc = "loaded"
    /\ \E isSimplified \in BOOLEAN, word \in Words, pinyin \in Filters,
          config \in Configs :
          /\ query' = [kind |-> "query", isSimplified |-> isSimplified,
                       word |-> word, pinyin |-> pinyin, config |-> config]
          /\ result' = GetByWord(data, isSimplified, word, pinyin, config)
    /\ pc' = "answered"
    /\ UNCHANGED <<sideVars, lines, cursor, qcursor, buildVars, written, diagnostic,
                   data>>

\* The caller takes the answer; the runtime is ready for the next call.
Return ==
    /\ pc = "answered"
    /\ pc' = "loaded"
    /\ query' = [kind |-> "none"]
    /\ result' = [kind |-> "none"]
    /\ UNCHANGED <<sideVars, lines, cursor, qcursor, buildVars, written, diagnostic,
                   data>>

Next ==
    \/ SkipLine
    \/ RegisterLine
    \/ DuplicateKey
    \/ EndPass1
    \/ LinkQueued
    \/ WriteArtifact
    \/ WriteFails
    \/ Load
    \/ Query
    \/ Return

Spec == Init /\ [][Next]_vars

-----------------------------------------------------------------------------
(* cedict.ts over the artifacts build.js writes *)

\* The constructor runs over the files build.js wrote (build.js:133-135).
LoadLegacy ==
    /\ pc = "written"
    /\ data' = Constructor(LegacyAllData(all), traditional, simplified)
    /\ pc' = "loaded"
    /\ UNCHANGED <<sideVars, lines, cursor, qcursor, buildVars, written, diagnostic,
                   query, result>>

NextLegacy ==
    \/ SkipLine
    \/ RegisterLine
    \/ DuplicateKey
    \/ EndPass1
    \/ LinkQueued
    \/ WriteArtifact
    \/ WriteFails
    \/ LoadLegacy
    \/ Query
    \/ Return

SpecLegacy == Init /\ [][NextLegacy]_vars

-----------------------------------------------------------------------------
(* build.js: main, the run of the whole build script *)

\* main starts: nothing downloaded yet, status.json as the package shipped it.
InitMain ==
    /\ lines \in Inputs
    /\ pc = "download"
    /\ cursor = 1
    /\ qcursor = 1
    /\ all = <<>>
    /\ lineToNum = EmptyObject
    /\ traditional = EmptyObject
    /\ simplified = EmptyObject
    /\ variantQueue = <<>>
    /\ written = {}
    /\ diagnostic = [kind |-> "none"]
    /\ data = [kind |-> "none"]
    /\ query = [kind |-> "none"]
    /\ result = [kind |-> "none"]
    /\ status = "old"
    /\ text = [kind |-> "none"]
    /\ parsed = [kind |-> "none"]

\* One of the three download attempts succeeds (build.js:230-238).
DownloadSucceeds ==
    /\ pc = "download"
    /\ pc' = "pass1"
    /\ UNCHANGED <<sideVars, lines, cursor, qcursor, buildVars, written, diagnostic,
                   data, query, result>>

\* All three attempts fail: main throws, the catch removes the zip and
\* returns (build.js:241, 249-253).
DownloadFails ==
    /\ pc = "download"
    /\ diagnostic' = [kind |-> "thrown", value |-> "Failed to download CC-CEDICT"]
    /\ pc' = "fallback"
    /\ UNCHANGED <<sideVars, lines, cursor, qcursor, buildVars, written, data,
                   query, result>>

\* The archive has no cedict_ts.u8: extractAndProcessZip logs and returns
\* (build.js:95-98).
MissingDictionaryFile ==
    /\ pc = "pass1"
    /\ cursor = 1
    /\ diagnostic' = [kind |-> "logged", value |-> "cedict_ts.u8 not found"]
    /\ pc' = "failed"
    /\ UNCHANGED <<sideVars, lines, cursor, qcursor, buildVars, written, data,
                   query, result>>

\* extractAndProcessZip has returned, however it ended; main removes the zip
\* and writes status.json (build.js:244-248).
WriteStatus ==
    /\ pc \in {"written", "failed"}
    /\ status' = "updated"
    /\ pc' = "done"
    /\ UNCHANGED <<text, parsed, lines, cursor, qcursor, buildVars, written,
                   diagnostic, data, query, result>>

NextMain ==
    \/ DownloadSucceeds
    \/ DownloadFails
    \/ MissingDictionaryFile
    \/ SkipLine
    \/ RegisterLine
    \/ DuplicateKey
    \/ EndPass1
    \/ LinkQueued
    \/ WriteArtifact
    \/ WriteFails
    \/ WriteStatus

SpecMain == InitMain /\ [][NextMain]_vars

-----------------------------------------------------------------------------
(* build.js: the parser of the definitions (parseMeanings, parseVariant) *)

\* A string is the sequence of its characters. The ideographs are written
\* by their code points: U+5BB6 U+5177 (furniture), U+50A2 (the traditional
\* first character of the same word), U+4EF6 and U+5957 (two classifiers).
Jia == "<U+5BB6>"
Ju == "<U+5177>"
JiaTraditional == "<U+50A2>"
Jian == "<U+4EF6>"
Tao == "<U+5957>"

\* [\p{Unified_Ideograph}\u3006\u3007], as far as the inputs go.
Ideograph == {Jia, Ju, JiaTraditional, Jian, Tao}

\* [\ufe00-\ufe0f\u{e0100}-\u{e01ef}]
VariationSelector == {"<U+FE00>"}

\* [A-Za-z\:]
Letter ==
    {"a", "b", "c", "d", "e", "f", "g", "h", "i", "j", "k", "l", "m",
     "n", "o", "p", "q", "r", "s", "t", "u", "v", "w", "x", "y", "z",
     "A", "B", "C", "D", "E", "F", "G", "H", "I", "J", "K", "L", "M",
     "N", "O", "P", "Q", "R", "S", "T", "U", "V", "W", "X", "Y", "Z", ":"}

\* [0-9]
Digit == {"0", "1", "2", "3", "4", "5", "6", "7", "8", "9"}

\* What trim() strips.
Whitespace == {" ", "\r", "\t"}

\* The literal 'variant of ' of REGEX.variant_of.
VariantMarker == <<"v", "a", "r", "i", "a", "n", "t", " ", "o", "f", " ">>

\* The literal 'CL:' of REGEX.classifiers.
ClassifierMarker == <<"C", "L", ":">>

\* JS null where a string may stand: a sequence no string is.
NullString == <<JsNull>>

\* The character at position i, "" past the end.
At(s, i) == IF i \in 1..Len(s) THEN s[i] ELSE ""

\* s.substring(n), n counted from 0.
Substring(s, n) == SubSeq(s, n + 1, Len(s))

\* Whether the literal lit stands in s at position i.
StartsAt(s, lit, i) ==
    /\ i + Len(lit) - 1 <= Len(s)
    /\ SubSeq(s, i, i + Len(lit) - 1) = lit

\* The first position from p on that holds c, Len(s) + 1 when none does.
RECURSIVE FindChar(_, _, _)
FindChar(s, c, p) ==
    IF p > Len(s) \/ s[p] = c THEN p ELSE FindChar(s, c, p + 1)

\* s.split(c) for a one-character separator.
RECURSIVE Split(_, _)
Split(s, c) ==
    LET k == FindChar(s, c, 1)
    IN IF k > Len(s) THEN <<s>>
       ELSE <<SubSeq(s, 1, k - 1)>> \o Split(SubSeq(s, k + 1, Len(s)), c)

\* parts.join(sep), from part n on.
RECURSIVE Join(_, _, _)
Join(parts, sep, n) ==
    IF n > Len(parts) THEN <<>>
    ELSE IF n = Len(parts) THEN parts[n]
    ELSE parts[n] \o sep \o Join(parts, sep, n + 1)

\* s.trim()
RECURSIVE Trim(_)
Trim(s) ==
    IF s = <<>> THEN s
    ELSE IF s[1] \in Whitespace THEN Trim(Tail(s))
    ELSE IF s[Len(s)] \in Whitespace THEN Trim(SubSeq(s, 1, Len(s) - 1))
    ELSE s

\* input.replace('\r', ''): the first carriage return is removed.
RemoveFirstCR(s) ==
    LET k == FindChar(s, "\r", 1)
    IN IF k > Len(s) THEN s
       ELSE SubSeq(s, 1, k - 1) \o SubSeq(s, k + 1, Len(s))

\* The position after the longest run of ideographs (each with an optional
\* variation selector) that starts at p; p itself when there is none.
RECURSIVE IdeographRun(_, _)
IdeographRun(s, p) ==
    IF At(s, p) \in Ideograph
    THEN IdeographRun(s, IF At(s, p + 1) \in VariationSelector
                         THEN p + 2 ELSE p + 1)
    ELSE p

\* The position after the optional group '|' ideographs that starts at q.
Alternative(s, q) ==
    IF At(s, q) = "|" /\ IdeographRun(s, q + 1) > q + 1
    THEN IdeographRun(s, q + 1)
    ELSE q

\* The mutant of VariantOfEnd whose bracket group takes the closing ']' too.
VariantOfEndClosed(s, i) ==
    LET q == Alternative(s, IdeographRun(s, i + Len(VariantMarker)))
        close == FindChar(s, "]", q + 1)
    IN IF At(s, q) = "[" THEN (IF close <= Len(s) THEN close + 1 ELSE close)
       ELSE q

\* The position after the match of REGEX.variant_of whose marker starts at
\* i: the marker, optional ideographs, optional alternative, and an
\* optional '[' with everything up to, not including, the next ']'.
VariantOfEnd(s, i) ==
    LET q == Alternative(s, IdeographRun(s, i + Len(VariantMarker)))
    IN IF At(s, q) = "[" THEN FindChar(s, "]", q + 1) ELSE q

\* s.match(REGEX.variant_of): the matches from position i on, left to right
\* (the empty sequence stands for null).
RECURSIVE MatchVariantOf(_, _)
MatchVariantOf(s, i) ==
    IF i > Len(s) THEN <<>>
    ELSE IF StartsAt(s, VariantMarker, i)
    THEN <<SubSeq(s, i, VariantOfEnd(s, i) - 1)>>
         \o MatchVariantOf(s, VariantOfEnd(s, i))
    ELSE MatchVariantOf(s, i + 1)

\* The position after one item of REGEX.classifiers that starts at p
\* (optional ideographs, optional alternative, a closed bracket, an optional
\* comma), 0 when no item matches there.
ClassifierItemEnd(s, p) ==
    LET q == Alternative(s, IdeographRun(s, p))
        close == FindChar(s, "]", q + 1)
    IN IF At(s, q) = "[" /\ close <= Len(s)
       THEN IF At(s, close + 1) = "," THEN close + 2 ELSE close + 1
       ELSE 0

\* The position after the longest sequence of items that starts at p.
RECURSIVE ClassifierItemsEnd(_, _)
ClassifierItemsEnd(s, p) ==
    IF ClassifierItemEnd(s, p) = 0 THEN p
    ELSE ClassifierItemsEnd(s, ClassifierItemEnd(s, p))

\* s.match(REGEX.classifiers): the matches from position i on.
RECURSIVE MatchClassifiers(_, _)
MatchClassifiers(s, i) ==
    IF i > Len(s) THEN <<>>
    ELSE IF /\ StartsAt(s, ClassifierMarker, i)
            /\ ClassifierItemEnd(s, i + Len(ClassifierMarker)) /= 0
    THEN LET e == ClassifierItemsEnd(s, i + Len(ClassifierMarker))
         IN <<SubSeq(s, i, e - 1)>> \o MatchClassifiers(s, e)
    ELSE MatchClassifiers(s, i + 1)

\* The position after the longest run of letters and colons from p.
RECURSIVE LetterRun(_, _)
LetterRun(s, p) ==
    IF At(s, p) \in Letter THEN LetterRun(s, p + 1) ELSE p

\* s.match(REGEX.pinyin): the matches from position i on.
RECURSIVE MatchPinyin(_, _)
MatchPinyin(s, i) ==
    IF i > Len(s) THEN <<>>
    ELSE LET e == LetterRun(s, i)
         IN IF e > i /\ At(s, e) \in Digit
            THEN <<SubSeq(s, i, e)>> \o MatchPinyin(s, e + 1)
            ELSE MatchPinyin(s, i + 1)

\* The mutant of ParseVariant that leaves the second headword empty when
\* no alternative is given.
ParseVariantNoDefault(input) ==
    IF Len(input) = 0 THEN [kind |-> "undefined"]
    ELSE LET pieces == Split(input, "[")
             names == Split(pieces[1], "|")
             matches == IF Len(pieces) >= 2 THEN MatchPinyin(pieces[2], 1)
                        ELSE <<>>
         IN [kind |-> "triple",
             value |-> << names[1],
                          IF Len(names) >= 2 THEN names[2] ELSE <<>>,
                          IF matches = <<>> THEN NullString
                          ELSE Join(matches, <<" ">>, 1) >>]

\* parseVariant
ParseVariant(input) ==
    IF Len(input) = 0 THEN [kind |-> "undefined"]
    ELSE LET pieces == Split(input, "[")
             names == Split(pieces[1], "|")
             simplifiedPart == names[1]
             traditionalPart == IF Len(names) >= 2 /\ names[2] /= <<>>
                                THEN names[2] ELSE simplifiedPart
             matches == IF Len(pieces) >= 2 THEN MatchPinyin(pieces[2], 1)
                        ELSE <<>>
         IN [kind |-> "triple",
             value |-> << simplifiedPart, traditionalPart,
                          IF matches = <<>> THEN NullString
                          ELSE Join(matches, <<" ">>, 1) >>]

\* Object.values(parsed).join(''): null joins as the empty string.
TripleKey(triple) ==
    triple[1] \o triple[2] \o (IF triple[3] = NullString THEN <<>> ELSE triple[3])

\* The push of one parsed triple unless its key was seen (variantMap,
\* classifierMap: the keys hold an ideograph, a bracket or nothing, so none
\* is a name of Object.prototype).
PushTriple(acc, list, map, triple) ==
    IF TripleKey(triple) \in acc[map] THEN acc
    ELSE [acc EXCEPT ![map] = @ \cup {TripleKey(triple)},
                     ![list] = Append(@, triple)]

\* The loop over the classifiers of one match (build.js:190-198).
RECURSIVE PushClassifiers(_, _, _)
PushClassifiers(acc, pieces, n) ==
    IF n > Len(pieces) THEN acc
    ELSE LET piece == ParseVariant(pieces[n])
         IN PushClassifiers(
                IF piece.kind = "undefined" THEN acc
                ELSE PushTriple(acc, "classifiers", "classifierMap", piece.value),
                pieces, n + 1)

\* One iteration of the loop of parseMeanings (build.js:168-204).
ParseSegment(acc, meaning) ==
    LET trimmed == Trim(meaning)
        variantMatches == MatchVariantOf(trimmed, 1)
        variant == IF variantMatches = <<>> THEN [kind |-> "undefined"]
                   ELSE ParseVariant(Substring(variantMatches[1], Len(VariantMarker)))
        classifierMatches == MatchClassifiers(trimmed, 1)
        skipMeaning == \/ variantMatches /= <<>> /\ variantMatches[1] = trimmed
                       \/ classifierMatches /= <<>> /\ classifierMatches[1] = trimmed
        afterVariant == IF variantMatches = <<>> THEN acc
                        ELSE PushTriple(acc, "variant_of", "variantMap", variant.value)
        afterClassifiers ==
            IF classifierMatches = <<>> THEN afterVariant
            ELSE PushClassifiers(afterVariant,
                     Split(Substring(classifierMatches[1], Len(ClassifierMarker)), ","),
                     1)
    IN IF trimmed = <<>> THEN acc
       ELSE IF variantMatches /= <<>> /\ variant.kind = "undefined" THEN acc
       ELSE IF skipMeaning THEN afterClassifiers
       ELSE [afterClassifiers EXCEPT !.meanings = Append(@, trimmed)]

RECURSIVE ParseSegments(_, _, _)
ParseSegments(acc, segments, n) ==
    IF n > Len(segments) THEN acc
    ELSE ParseSegments(ParseSegment(acc, segments[n]), segments, n + 1)

\* parseMeanings
ParseMeanings(input) ==
    LET acc == ParseSegments(
                   [meanings |-> <<>>, variant_of |-> <<>>, classifiers |-> <<>>,
                    variantMap |-> {}, classifierMap |-> {}],
                   Split(RemoveFirstCR(input), "/"), 1)
    IN [meanings |-> acc.meanings,
        variant_of |-> acc.variant_of,
        classifiers |-> acc.classifiers]

\* The most segments a definition body of the model has.
MaxSegments == 2

\* 'jia1 ju4', 'jian4', 'tao4'
JiaJuPinyin == <<"j", "i", "a", "1", " ", "j", "u", "4">>
JianPinyin == <<"j", "i", "a", "n", "4">>
TaoPinyin == <<"t", "a", "o", "4">>

\* The headword expressions handed to parseVariant: those of the tests of
\* vitest.config.ts:192-245, and ones with an empty alternative, an empty
\* headword, a colon or a capital in a syllable, text that is no syllable,
\* a bracket left open (REGEX.variant_of stops before ']'), a second '[',
\* text after the bracket, and the empty expression.
Expressions ==
    { <<>>,
      <<Jia, Ju>>,
      <<Jia, Ju, "[">> \o JiaJuPinyin \o <<"]">>,
      <<Jia, Ju, "|", JiaTraditional, Ju, "[">> \o JiaJuPinyin \o <<"]">>,
      <<Jia, Ju, "|", JiaTraditional, Ju>>,
      <<Jian, "[">> \o JianPinyin \o <<"]">>,
      <<Jia, Ju, "[">> \o JiaJuPinyin,
      <<Jia, Ju, "|", "[">> \o JiaJuPinyin \o <<"]">>,
      <<"[">> \o JianPinyin \o <<"]">>,
      <<Jia, "[", "l", "u", ":", "4", "]">>,
      <<Jia, "[", "J", "i", "a", "1", "]">>,
      <<Jia, "[", "]">>,
      <<Jia, "[", "j", "i", "a", "]">>,
      <<Jia, "[", "j", "i", "a", "1", " ", "x", "]">>,
      <<Jia, "[", "1", " ", "j", "i", "a", "1", "]">>,
      <<Jia, "[", "j", "i", "a", "1", "[", "j", "u", "4">>,
      <<Jia, "[", "j", "i", "a", "1", "]", "j", "u", "4">> }

\* The definition segments of the model: plain text, a variant reference
\* alone (without and with pinyin bracket, with alternative), a classifier
\* list alone, either pattern inside longer text, the marker followed by
\* text that is no headword expression, two headword pairs that spell the
\* same characters, and an empty segment.
Segments ==
    { <<>>,
      <<"o", "p", "e", "n">>,
      VariantMarker \o <<Jia, Ju>>,
      VariantMarker \o <<Jia, Ju, "[">> \o JiaJuPinyin \o <<"]">>,
      VariantMarker \o <<Jia, Ju, "|", JiaTraditional, Ju, "[">> \o JiaJuPinyin \o <<"]">>,
      <<"o", "l", "d", " ">> \o VariantMarker \o <<Jia, Ju, "[">> \o JiaJuPinyin \o <<"]">>,
      <<"o", "l", "d", " ">> \o VariantMarker \o <<"x">>,
      VariantMarker \o <<Jia, Ju, "|", Jian>>,
      VariantMarker \o <<Jia, "|", Ju, Jian>>,
      VariantMarker \o <<Jia, Ju, " ", "o", "r", " ">> \o VariantMarker \o <<Jian>>,
      ClassifierMarker \o <<Jian, "[">> \o JianPinyin \o <<"]", ",", Tao, "[">>
          \o TaoPinyin \o <<"]">>,
      ClassifierMarker \o <<Jian, "[">> \o JianPinyin \o <<"]">>,
      <<"s", "e", "e", " ">> \o ClassifierMarker \o <<Jian, "[">> \o JianPinyin
          \o <<"]">>,
      <<" ", "o", "p", "e", "n", "\r">> }

\* The definition bodies of the model: up to MaxSegments segments, each
\* followed by '/', as parseLine cuts them off the line (build.js:146-150).
RECURSIVE BodyOf(_, _)
BodyOf(segments, n) ==
    IF n > Len(segments) THEN <<>>
    ELSE segments[n] \o <<"/">> \o BodyOf(segments, n + 1)

Bodies ==
    {BodyOf(segments, 1) :
        segments \in UNION {[1..n -> Segments] : n \in 1..MaxSegments}}

\* The parser is about to be called on one text.
InitParse ==
    /\ lines = <<>>
    /\ pc = "parse"
    /\ cursor = 1
    /\ qcursor = 1
    /\ all = <<>>
    /\ lineToNum = EmptyObject
    /\ traditional = EmptyObject
    /\ simplified = EmptyObject
    /\ variantQueue = <<>>
    /\ written = {}
    /\ diagnostic = [kind |-> "none"]
    /\ data = [kind |-> "none"]
    /\ query = [kind |-> "none"]
    /\ result = [kind |-> "none"]
    /\ status = "old"
    /\ \/ \E body \in Bodies : text = [kind |-> "body", value |-> body]
       \/ \E expression \in Expressions :
              text = [kind |-> "expression", value |-> expression]
    /\ parsed = [kind |-> "none"]

\* parseLine hands the definition body to parseMeanings (build.js:150).
CallParseMeanings ==
    /\ pc = "parse"
    /\ text.kind = "body"
    /\ parsed' = [kind |-> "meanings", value |-> ParseMeanings(text.value)]
    /\ pc' = "parsed"
    /\ UNCHANGED <<status, text, lines, cursor, qcursor, buildVars, written,
                   diagnostic, data, query, result>>

\* A call of parseVariant on one headword expression.
CallParseVariant ==
    /\ pc = "parse"
    /\ text.kind = "expression"
    /\ parsed' = ParseVariant(text.value)
    /\ pc' = "parsed"
    /\ UNCHANGED <<status, text, lines, cursor, qcursor, buildVars, written,
                   diagnostic, data, query, result>>

NextParse ==
    \/ CallParseMeanings
    \/ CallParseVariant

SpecParse == InitParse /\ [][NextParse]_vars

-----------------------------------------------------------------------------
(* Vocabulary of the properties *)

\* A getByWord call has returned and its answer is in result.
Answered == pc = "answered"

\* The build has run both passes (the indices are final).
Built == pc \in {"written", "loaded", "answered"}

\* The records of an answer in the order they are listed.
Records(res) ==
    IF res.kind = "array" THEN res.items
    ELSE IF res.kind = "object" THEN Flatten(res.groups, 1)
    ELSE <<>>

\* The records of an answer, each with the grouping key it is listed under
\* ("" in a flat answer).
RECURSIVE Keyed(_, _)
Keyed(groups, n) ==
    IF n > Len(groups) THEN <<>>
    ELSE [i \in 1..Len(groups[n].items) |-> <<groups[n].key, groups[n].items[i]>>]
         \o Keyed(groups, n + 1)

KeyedRecords(res) ==
    IF res.kind = "array" THEN [i \in 1..Len(res.items) |-> <<"", res.items[i]>>]
    ELSE IF res.kind = "object" THEN Keyed(res.groups, 1)
    ELSE <<>>

\* The Character Index the last query selected, as built.
QueriedIndex == IF query.isSimplified THEN simplified ELSE traditional

\* The headword field (1 traditional, 2 simplified) the last query selected.
QueriedField == IF query.isSimplified THEN 2 ELSE 1

\* The pinyin index of the queried headword.
QueriedWordSource == QueriedIndex[query.word]

\* The last query ran with every option at its default but those named.
DefaultCase == query.config.caseSensitiveSearch /\ ~query.config.mergeCases

-----------------------------------------------------------------------------
(* C1 *)

\* C1: with mergeCases=true, when the queried headword has a lowercase key
\* and a capitalized key that fold to the same key, each holding one entry,
\* the merged record lists the meanings of the lowercase-key entry first and
\* those of the capitalized-key entry after them.
C1_LowercaseMeaningsFirst ==
    (/\ Answered
     /\ query.config.mergeCases
     /\ query.pinyin = JsNull
     /\ query.word \in DOMAIN QueriedIndex)
    => \A low, up \in DOMAIN QueriedWordSource :
          (/\ up /= low
           /\ ToLowerCase(up) = low
           /\ Len(QueriedWordSource[low][1]) = 1
           /\ Len(QueriedWordSource[up][1]) = 1
           /\ QueriedWordSource[low][2] = <<>>
           /\ QueriedWordSource[up][2] = <<>>
           /\ all[QueriedWordSource[low][1][1] + 1][1]
                = all[QueriedWordSource[up][1][1] + 1][1])
          => \E i \in 1..Len(Records(result)) :
                Records(result)[i].english =
                    all[QueriedWordSource[low][1][1] + 1][4]
                    \o all[QueriedWordSource[up][1][1] + 1][4]

-----------------------------------------------------------------------------
(* C2 *)

\* The same query with allowVariants=true.
WithVariants ==
    GetByWord(data, query.isSimplified, query.word, query.pinyin,
              [query.config EXCEPT !.allowVariants = TRUE])

NotVariant(keyed) == ~keyed[2].is_variant

\* C2: the answer with allowVariants=false is the answer of the same query
\* with allowVariants=true without its is_variant records: same grouping
\* keys, same order, same content.
C2_DisablingVariantsOnlyRemoves ==
    (/\ Answered
     /\ ~query.config.allowVariants
     /\ result.kind /= "throws")
    => KeyedRecords(result) = SelectSeq(KeyedRecords(WithVariants), NotVariant)

-----------------------------------------------------------------------------
(* C3 *)

\* The record of Entry Table member e as the Entry Table of the build holds
\* it, with the pinyin as the last query lists it.
ExpandedForm(e) ==
    [traditional |-> e[1],
     simplified |-> e[2],
     pinyin |-> IF query.config.mergeCases THEN ToLowerCase(e[3]) ELSE e[3],
     english |-> e[4],
     classifiers |-> e[6],
     variant_of |-> [i \in 1..Len(e[5]) |->
                       [traditional |-> e[5][i][1], simplified |-> e[5][i][2],
                        pinyin |-> e[5][i][3]]],
     is_variant |-> FALSE]

\* The last query looked up the headword of e with the pinyin of e as
\* filter and without variants.
LooksUpBase(e) ==
    /\ Answered
    /\ e[5] = <<>>
    /\ query.word = e[QueriedField]
    /\ query.pinyin = e[3]
    /\ ~query.config.allowVariants

RecordsOf(e) ==
    {i \in 1..Len(Records(result)) :
        /\ Records(result)[i].traditional = e[1]
        /\ Records(result)[i].pinyin = ExpandedForm(e).pinyin}

\* No other Entry of the table has the traditional form and the listed
\* pinyin of all[n].
OnlyOfItsKind(n) ==
    ~\E m \in 1..Len(all) :
        /\ m /= n
        /\ all[m][1] = all[n][1]
        /\ ExpandedForm(all[m]).pinyin = ExpandedForm(all[n]).pinyin

-----------------------------------------------------------------------------
(* C4 *)

\* The last query looked up the original that reference ref names, by its
\* headword in the queried script and its pinyin, with variants allowed.
LooksUpOriginal(ref) ==
    /\ Answered
    /\ ref[3] /= JsNull
    /\ ref[QueriedField] /= ""
    /\ query.word = ref[QueriedField]
    /\ query.pinyin = ref[3]
    /\ query.config.allowVariants

\* reference ref is among the variant_of of record r.
Lists(r, ref) ==
    \E i \in 1..Len(r.variant_of) :
        /\ r.variant_of[i].traditional = ref[1]
        /\ r.variant_of[i].simplified = ref[2]
        /\ r.variant_of[i].pinyin = ref[3]

\* C4: looking up the original O of a variant Entry V by O's headword and
\* pinyin, with variants allowed, returns a record for V that is marked
\* is_variant and whose variant_of lists O.
C4_VariantListedUnderOriginal ==
    \A n \in 1..Len(all) : \A k \in 1..Len(all[n][5]) :
        (LooksUpOriginal(all[n][5][k]) /\ DefaultCase)
        => \E i \in 1..Len(Records(result)) :
              LET r == Records(result)[i]
              IN /\ r.traditional = all[n][1]
                 /\ r.simplified = all[n][2]
                 /\ r.pinyin = all[n][3]
                 /\ r.is_variant
                 /\ Lists(r, all[n][5][k])

-----------------------------------------------------------------------------
(* C5 *)

\* C5: an answer is either null or holds at least one record; a grouped
\* answer is never a container of groups without records.
C5_EmptyAnswerIsNull ==
    (Answered /\ result.kind \in {"object", "array"})
    => Records(result) /= <<>>

-----------------------------------------------------------------------------
(* C6 *)

\* The pinyin keys of the queried headword the filter of the last query
\* matches.
MatchedKeys ==
    IF query.word \notin DOMAIN QueriedIndex THEN {}
    ELSE {key \in DOMAIN QueriedWordSource :
             \/ Falsy(query.pinyin)
             \/ query.config.caseSensitiveSearch /\ key = query.pinyin
             \/ ~query.config.caseSensitiveSearch
                /\ ToLowerCase(key) = ToLowerCase(query.pinyin)}

\* C6: getByWord never throws; it returns null for a headword that is not in
\* the selected index and for a filter that matches none of the headword's
\* pinyin keys.
C6_NeverThrows ==
    Answered
    => /\ result.kind /= "throws"
       /\ MatchedKeys = {} => result.kind = "null"

-----------------------------------------------------------------------------
(* C7 *)

\* Some reference of record r names headword word in the queried script,
\* with a pinyin that reads as one of keys.
RefersTo(r, word, keys) ==
    \E i \in 1..Len(r.variant_of) :
        /\ (IF query.isSimplified THEN r.variant_of[i].simplified
            ELSE r.variant_of[i].traditional) = word
        /\ PropertyKey(r.variant_of[i].pinyin) \in keys

-----------------------------------------------------------------------------
(* C8 *)

\* The two Character Indices, by headword field.
IndexOfField(field) == IF field = 1 THEN traditional ELSE simplified

\* seq has no member twice.
DuplicateFree(seq) ==
    \A i, j \in 1..Len(seq) : seq[i] = seq[j] => i = j

\* C8: after the build no Entry Table position occurs twice in the
\* concatenation of baseIndices and variantIndices of a bucket.
C8_BucketsDuplicateFree ==
    Built
    => \A field \in {1, 2} :
          \A hw \in DOMAIN IndexOfField(field) :
             \A py \in DOMAIN IndexOfField(field)[hw] :
                DuplicateFree(IndexOfField(field)[hw][py][1]
                              \o IndexOfField(field)[hw][py][2])

-----------------------------------------------------------------------------
(* C9 *)

-----------------------------------------------------------------------------
(* C10 *)

\* Line k is accepted and repeats the key of an accepted line before it.
RepeatsKey(k) ==
    /\ ~Skipped(lines[k])
    /\ \E j \in 1..(k - 1) :
          IF Skipped(lines[j]) THEN FALSE
          ELSE KeyOf(lines[j]) = KeyOf(lines[k])

\* C10: when two accepted lines have the same key the build does not go
\* past the second one and writes no artifact, and once it has halted the
\* diagnostic is the offending key.
C10_DuplicateKeyHalts ==
    \A k \in 1..Len(lines) :
        (RepeatsKey(k) /\ \A j \in 1..(k - 1) : ~RepeatsKey(j))
        => /\ cursor <= k
           /\ pc \in {"pass1", "failed"}
           /\ written = {}
           /\ data.kind = "none"
           /\ pc = "failed"
              => /\ cursor = k
                 /\ diagnostic = [kind |-> "thrown", value |-> KeyOf(lines[k])]

\* The build has halted at a line that repeats a key, after registering the
\* first line with that key.
C10_Witness ==
    /\ pc = "failed"
    /\ cursor \in 1..Len(lines)
    /\ RepeatsKey(cursor)
    /\ Len(all) >= 1
    /\ diagnostic = [kind |-> "thrown", value |-> KeyOf(lines[cursor])]
    /\ written = {}

-----------------------------------------------------------------------------
(* C11 *)

\* The three artifacts of the build.
Artifacts == {"all", "traditional", "simplified"}

\* C11: a run of the build that has failed has replaced either none of the
\* three artifact files or all of them, never some of them.
C11_NoPartialOverwrite ==
    pc = "failed" => written \in {{}, Artifacts}

-----------------------------------------------------------------------------
(* C12 *)

\* The line has its headword pair and its pinyin.
WellFormed(line) ==
    IF line = <<>> THEN FALSE
    ELSE \A f \in 1..3 : line[f] \notin {"", JsNull, JsUndefined}

\* The position of Entry n is among the baseIndices of the bucket of its own
\* headword and pinyin in the index of field.
Registered(n, field) ==
    /\ all[n][field] \in DOMAIN IndexOfField(field)
    /\ all[n][3] \in DOMAIN IndexOfField(field)[all[n][field]]
    /\ n - 1 \in Range(IndexOfField(field)[all[n][field]][all[n][3]][1])

\* C12: a line without headword pair or pinyin, or one parseLine rejects,
\* contributes no Entry and does not stop the build: the Entry Table is at
\* every moment the well-formed lines read so far, in their order, the build
\* never halts at a malformed line, and after the build every Entry is
\* registered in both indices.
C12_MalformedLineIsSkipped ==
    /\ all = SelectSeq(SubSeq(lines, 1, cursor - 1), WellFormed)
    /\ (pc = "failed" /\ cursor <= Len(lines)) => WellFormed(lines[cursor])
    /\ Built => \A n \in 1..Len(all) : \A field \in {1, 2} : Registered(n, field)

\* The build has finished over an input in which a line without pinyin or
\* without simplified form precedes a well-formed line, which is registered.
C12_Witness ==
    /\ Built
    /\ Len(all) = 1
    /\ \E k \in 1..Len(lines) :
          /\ lines[k] /= <<>>
          /\ ~WellFormed(lines[k])
          /\ \E j \in (k + 1)..Len(lines) : lines[j] = all[1]
    /\ Registered(1, 1)
    /\ Registered(1, 2)

-----------------------------------------------------------------------------
(* C13 *)

\* The grouping keys of a grouped answer.
GroupKeys(res) == {res.groups[g].key : g \in 1..Len(res.groups)}

\* C13: without case merge, the grouping keys of a grouped non-null answer
\* are exactly the candidate pinyin keys of the headword: all of them without
\* filter, the key identical to the filter in a case-sensitive search, the
\* keys that fold to the folded filter in a case-insensitive search.
C13_GroupKeysAreCandidateKeys ==
    (/\ Answered
     /\ ~query.config.mergeCases
     /\ query.config.asObject
     /\ result.kind = "object")
    => /\ GroupKeys(result) = MatchedKeys
       /\ Len(result.groups) = Cardinality(MatchedKeys)

\* A case-insensitive search with a filter returned the two case-distinct
\* keys of the headword, and the same filter is one of three keys.
C13_Witness ==
    /\ Answered
    /\ ~query.config.mergeCases
    /\ ~query.config.caseSensitiveSearch
    /\ query.pinyin = "Zhang1"
    /\ result.kind = "object"
    /\ GroupKeys(result) = {"Zhang1", "zhang1"}
    /\ query.word \in DOMAIN QueriedIndex
    /\ Cardinality(DOMAIN QueriedWordSource) = 3

-----------------------------------------------------------------------------
(* C14 *)

\* items after record r, folded, has been merged into them: appended, or its
\* meanings appended to the record with its traditional form and pinyin.
MergeRecord(items, r) ==
    LET folded == [r EXCEPT !.pinyin = ToLowerCase(@)]
        at == {i \in 1..Len(items) :
                  /\ items[i].traditional = folded.traditional
                  /\ items[i].pinyin = folded.pinyin}
    IN IF at = {} THEN Append(items, folded)
       ELSE [i \in 1..Len(items) |->
               IF i \in at
               THEN [items[i] EXCEPT !.english = @ \o folded.english]
               ELSE items[i]]

RECURSIVE MergeRecords(_, _, _)
MergeRecords(items, more, n) ==
    IF n > Len(more) THEN items
    ELSE MergeRecords(MergeRecord(items, more[n]), more, n + 1)

\* The groups from n on folded and merged into acc: a group goes to the
\* group of its folded key, in the order of first appearance.
RECURSIVE MergeGroups(_, _, _)
MergeGroups(groups, n, acc) ==
    IF n > Len(groups) THEN acc
    ELSE LET key == ToLowerCase(groups[n].key)
             at == {g \in 1..Len(acc) : acc[g].key = key}
         IN MergeGroups(groups, n + 1,
                IF at = {}
                THEN Append(acc, [key |-> key,
                                  items |-> MergeRecords(<<>>, groups[n].items, 1)])
                ELSE [g \in 1..Len(acc) |->
                        IF g \in at
                        THEN [acc[g] EXCEPT
                                !.items = MergeRecords(@, groups[n].items, 1)]
                        ELSE acc[g]])

\* C14: with mergeCases=true every grouping key and every record's pinyin is
\* its own lowercase form, no two grouping keys differ only by case, and
\* folding and merging the grouped answer once more gives the same answer.
C14_CaseMergeIsIdempotent ==
    (Answered /\ query.config.mergeCases)
    => /\ \A i \in 1..Len(Records(result)) :
             Records(result)[i].pinyin = ToLowerCase(Records(result)[i].pinyin)
       /\ result.kind = "object"
          => /\ \A g \in 1..Len(result.groups) :
                   result.groups[g].key = ToLowerCase(result.groups[g].key)
             /\ \A g, h \in 1..Len(result.groups) :
                   ToLowerCase(result.groups[g].key) = ToLowerCase(result.groups[h].key)
                   => g = h
             /\ MergeGroups(result.groups, 1, <<>>) = result.groups

\* A merged answer was returned for a headword with the keys Zhang1 and
\* zhang1, in one group with a record of the capitalized entry.
C14_Witness ==
    /\ Answered
    /\ query.config.mergeCases
    /\ result.kind = "object"
    /\ query.word \in DOMAIN QueriedIndex
    /\ {"Zhang1", "zhang1"} \subseteq DOMAIN QueriedWordSource
    /\ GroupKeys(result) = {"zhang1"}
    /\ \E i \in 1..Len(Records(result)) :
          \E n \in 1..Len(all) :
             /\ all[n][3] = "Zhang1"
             /\ Records(result)[i].traditional = all[n][1]
             /\ Records(result)[i].simplified = all[n][2]
             /\ Records(result)[i].pinyin = "zhang1"

-----------------------------------------------------------------------------
(* C15 *)

\* The same query with asObject=true.
Grouped ==
    GetByWord(data, query.isSimplified, query.word, query.pinyin,
              [query.config EXCEPT !.asObject = TRUE])

\* The record sequences of the first n groups, one after the other.
RECURSIVE Concatenated(_, _)
Concatenated(groups, n) ==
    IF n = 0 THEN <<>>
    ELSE Concatenated(groups, n - 1) \o groups[n].items

\* C15: a non-null flat answer is the concatenation of the record sequences
\* of the grouped answer of the same query, in the order of its keys.
C15_FlatIsConcatenationOfGroups ==
    (/\ Answered
     /\ ~query.config.asObject
     /\ result.kind = "array")
    => /\ Grouped.kind = "object"
       /\ result.items = Concatenated(Grouped.groups, Len(Grouped.groups))

\* A flat answer was returned whose grouped form has two groups with records
\* that differ.
C15_Witness ==
    /\ Answered
    /\ ~query.config.asObject
    /\ result.kind = "array"
    /\ Grouped.kind = "object"
    /\ Len(Grouped.groups) = 2
    /\ Grouped.groups[1].items /= <<>>
    /\ Grouped.groups[2].items /= <<>>
    /\ Grouped.groups[1].items /= Grouped.groups[2].items

-----------------------------------------------------------------------------
(* C16 *)

\* C16: with allowVariants=false no record of the answer, grouped or flat,
\* filtered or not, merged or not, has is_variant=true.
C16_NoVariantWhenDisallowed ==
    (Answered /\ ~query.config.allowVariants)
    => \A i \in 1..Len(Records(result)) : ~Records(result)[i].is_variant

\* An answer without variants holds a record, and the same query with
\* variants returns a record with is_variant=true.
C16_Witness ==
    /\ Answered
    /\ ~query.config.allowVariants
    /\ Records(result) /= <<>>
    /\ \E i \in 1..Len(Records(WithVariants)) :
          Records(WithVariants)[i].is_variant

-----------------------------------------------------------------------------
(* C17 *)

\* What processResults gathered for the last query, which returned records.
Gathered ==
    LET wordSource == (IF query.isSimplified THEN data.simplified
                       ELSE data.traditional)[query.word]
    IN ProcessResults(wordSource,
           KeysToCheck(wordSource, query.pinyin, query.config.caseSensitiveSearch),
           query.config.allowVariants, query.config.mergeCases)

\* The gathered positions of group g that formatResults expands.
Contributing(g) ==
    SelectSeq(Gathered.resultsMap[g].indices,
              LAMBDA idx : query.config.allowVariants
                           \/ idx \notin Gathered.variantMap)

\* The number of meanings of the Entries from n on that are listed with the
\* traditional form and pinyin of record r.
RECURSIVE MeaningsFor(_, _)
MeaningsFor(r, n) ==
    IF n > Len(all) THEN 0
    ELSE (IF all[n][1] = r.traditional /\ ExpandedForm(all[n]).pinyin = r.pinyin
          THEN Len(all[n][4]) ELSE 0)
         + MeaningsFor(r, n + 1)

\* C17: in a lookup each Entry Table position contributes to a group at most
\* once, and no record lists more meanings than the Entries with its
\* traditional form and pinyin have together.
C17_PositionContributesOnce ==
    (Answered /\ result.kind \in {"object", "array"})
    => /\ \A g \in 1..Len(Gathered.resultsMap) : DuplicateFree(Contributing(g))
       /\ \A i \in 1..Len(Records(result)) :
             Len(Records(result)[i].english) <= MeaningsFor(Records(result)[i], 1)

-----------------------------------------------------------------------------
(* C18 *)

\* The last query with pinyin key as its filter.
FilteredBy(key) ==
    GetByWord(data, query.isSimplified, query.word, key, query.config)

\* C18: in a case-sensitive lookup without case merge, the group keyed K of
\* the unfiltered answer is the group keyed K of the answer filtered by K:
\* same records, same order, same is_variant flags, with and without
\* variants.
C18_FilterKeepsTheGroup ==
    (/\ Answered
     /\ DefaultCase
     /\ query.pinyin = JsNull
     /\ result.kind = "object")
    => \A g \in 1..Len(result.groups) :
          LET filtered == FilteredBy(result.groups[g].key)
          IN IF filtered.kind = "object"
             THEN \E h \in 1..Len(filtered.groups) :
                     /\ filtered.groups[h].key = result.groups[g].key
                     /\ filtered.groups[h].items = result.groups[g].items
             ELSE result.groups[g].items = <<>>

-----------------------------------------------------------------------------
(* C19 *)

\* The members of positions whose Entry is listed with the traditional form
\* and pinyin of record r.
WithPairOf(r, positions) ==
    SelectSeq(positions,
              LAMBDA idx : /\ all[idx + 1][1] = r.traditional
                           /\ ExpandedForm(all[idx + 1]).pinyin = r.pinyin)

\* The meanings of the Entries at positions, from the n-th on, one after the
\* other.
RECURSIVE MeaningsOf(_, _)
MeaningsOf(positions, n) ==
    IF n > Len(positions) THEN <<>>
    ELSE all[positions[n] + 1][4] \o MeaningsOf(positions, n + 1)

\* Record r is the record of the Entries at positions: the fields of the
\* first, the meanings of all of them in their order.
RecordOf(r, positions) ==
    /\ positions /= <<>>
    /\ r = [ExpandedForm(all[positions[1] + 1]) EXCEPT
              !.english = MeaningsOf(positions, 1),
              !.is_variant = positions[1] \in Gathered.variantMap]

\* No two records of items have the same traditional form and pinyin.
PairsDistinct(items) ==
    \A i, j \in 1..Len(items) :
        (items[i].traditional = items[j].traditional
         /\ items[i].pinyin = items[j].pinyin) => i = j

\* C19 as stated: in every group no two records share traditional form and
\* pinyin, and the record of a pair has the fields of the first gathered
\* Entry with that pair and the meanings of all gathered Entries with that
\* pair, in gather order, repeats kept.
C19_RecordOfAllGathered ==
    (Answered /\ result.kind = "object")
    => \A g \in 1..Len(result.groups) :
          /\ PairsDistinct(result.groups[g].items)
          /\ \A i \in 1..Len(result.groups[g].items) :
                RecordOf(result.groups[g].items[i],
                         WithPairOf(result.groups[g].items[i],
                                    Gathered.resultsMap[g].indices))

\* C19 amended: the same with the gathered Entries that are expanded, i.e.
\* without the positions marked as variants when allowVariants=false; every
\* expanded Entry is in the record of its pair.
C19_RecordOfAllExpanded ==
    (Answered /\ result.kind = "object")
    => \A g \in 1..Len(result.groups) :
          /\ PairsDistinct(result.groups[g].items)
          /\ \A i \in 1..Len(result.groups[g].items) :
                RecordOf(result.groups[g].items[i],
                         WithPairOf(result.groups[g].items[i], Contributing(g)))
          /\ \A k \in 1..Len(Contributing(g)) :
                \E i \in 1..Len(result.groups[g].items) :
                   WithPairOf(result.groups[g].items[i], <<Contributing(g)[k]>>)
                     /= <<>>

\* A group holds a record merged from two different Entries with the same
\* traditional form and pinyin.
C19_Witness ==
    /\ Answered
    /\ result.kind = "object"
    /\ \E g \in 1..Len(result.groups) :
          \E i \in 1..Len(result.groups[g].items) :
             LET same == WithPairOf(result.groups[g].items[i], Contributing(g))
             IN /\ Len(same) = 2
                /\ same[1] /= same[2]
                /\ RecordOf(result.groups[g].items[i], same)

-----------------------------------------------------------------------------
(* C20 *)

\* C20: every returned record with a non-empty variant_of has
\* is_variant=true, whichever headword and key it was found under.
C20_VariantOfImpliesIsVariant ==
    Answered
    => \A i \in 1..Len(Records(result)) :
          Records(result)[i].variant_of /= <<>> => Records(result)[i].is_variant

-----------------------------------------------------------------------------
(* C21 *)

\* py is the pinyin of an Entry or the pinyin of a variant reference that
\* has one.
PinyinOfTheTable(py) ==
    \/ \E n \in 1..Len(all) : all[n][3] = py
    \/ \E n \in 1..Len(all) : \E k \in 1..Len(all[n][5]) :
          /\ all[n][5][k][3] /= JsNull
          /\ all[n][5][k][3] = py

\* C21: after the build every pinyin key of every headword of both indices
\* is the pinyin of an Entry or the pinyin of a variant reference that has
\* one; a reference without pinyin makes no bucket and is in none.
C21_NoBucketForMissingPinyin ==
    Built
    => \A field \in {1, 2} :
          \A hw \in DOMAIN IndexOfField(field) :
             \A py \in DOMAIN IndexOfField(field)[hw] : PinyinOfTheTable(py)

-----------------------------------------------------------------------------
(* C24 *)

\* The reference has both headword fields and a pinyin.
Complete(ref) == ref[1] /= "" /\ ref[2] /= "" /\ ref[3] /= JsNull

\* Position pos is among the variantIndices of bucket [hw][py] of the index
\* of field.
LinkedAt(pos, field, hw, py) ==
    /\ hw \in DOMAIN IndexOfField(field)
    /\ py \in DOMAIN IndexOfField(field)[hw]
    /\ pos \in Range(IndexOfField(field)[hw][py][2])

\* C24: after the build the position of every Entry is among the
\* variantIndices of the bucket each of its complete references names, in the
\* traditional index by the first field and in the simplified index by the
\* second, also when no Entry has that headword and pinyin.
C24_VariantLinkedToItsOriginals ==
    Built
    => \A n \in 1..Len(all) : \A k \in 1..Len(all[n][5]) :
          Complete(all[n][5][k])
          => \A field \in {1, 2} :
                LinkedAt(n - 1, field, all[n][5][k][field], all[n][5][k][3])

\* The build has linked an Entry to a headword no Entry has: the bucket was
\* made for it, with empty baseIndices.
C24_Witness ==
    /\ Built
    /\ \E n \in 1..Len(all) : \E k \in 1..Len(all[n][5]) :
          LET ref == all[n][5][k]
          IN /\ Complete(ref)
             /\ \A m \in 1..Len(all) : all[m][1] /= ref[1]
             /\ LinkedAt(n - 1, 1, ref[1], ref[3])
             /\ traditional[ref[1]][ref[3]][1] = <<>>

-----------------------------------------------------------------------------
(* C27 *)

\* The keys of groups are in ascending ordinal order.
KeysAscending(groups) ==
    \A g, h \in 1..Len(groups) :
        g < h => StrLess(groups[g].key, groups[h].key)

-----------------------------------------------------------------------------
(* C28 *)

\* Where the first Entry of the record r is among the expanded positions of
\* group g.
FirstGatheredAt(r, g) ==
    CHOOSE k \in 1..Len(Contributing(g)) :
        /\ WithPairOf(r, <<Contributing(g)[k]>>) /= <<>>
        /\ \A j \in 1..(k - 1) : WithPairOf(r, <<Contributing(g)[j]>>) = <<>>

\* C28: in every group the records are in ascending ordinal order of their
\* pinyin, records with equal pinyin are in the order they were gathered,
\* and the same query on the same data gives the same answer: a query leaves
\* the loaded data as they were and its answer is a function of them.
C28_SortedAndStable ==
    Answered
    => /\ data = Constructor(CompactAllData(all), traditional, simplified)
       /\ result = GetByWord(data, query.isSimplified, query.word, query.pinyin,
                             query.config)
       /\ result.kind = "object"
          => \A g \in 1..Len(result.groups) :
                \A i, j \in 1..Len(result.groups[g].items) :
                   i < j
                   => LET a == result.groups[g].items[i]
                          b == result.groups[g].items[j]
                      IN /\ ~StrLess(b.pinyin, a.pinyin)
                         /\ a.pinyin = b.pinyin
                            => FirstGatheredAt(a, g) < FirstGatheredAt(b, g)

\* A group holds two records with the same pinyin, a base member before a
\* variant member.
C28_Witness ==
    /\ Answered
    /\ result.kind = "object"
    /\ \E g \in 1..Len(result.groups) :
          /\ Len(result.groups[g].items) = 2
          /\ result.groups[g].items[1].pinyin = result.groups[g].items[2].pinyin
          /\ ~result.groups[g].items[1].is_variant
          /\ result.groups[g].items[2].is_variant

-----------------------------------------------------------------------------
(* C26 *)

\* C26: in every run of the build, status.json is updated only after all.js,
\* traditional.js and simplified.js have all been written in that run and no
\* error was thrown or logged; a run whose extraction or indexing failed
\* leaves status.json as it was.
C26_StatusOnlyAfterArtifacts ==
    status = "updated" => (written = Artifacts /\ diagnostic.kind = "none")


-----------------------------------------------------------------------------
(* C25 *)

\* C25: over the entry table in the layout build.js writes (plain array,
\* inline triples, no lookup tables), a query without pinyin filter for a
\* headword the index holds is answered without a fault, and each record's
\* variant_of and classifiers are the inline triples of its Entry.
C25_LegacyLayoutAnswered ==
    (Answered /\ query.word \in DOMAIN QueriedIndex /\ query.pinyin = JsNull)
        => /\ result.kind /= "throws"
           /\ \A i \in 1..Len(Records(result)) :
                 \E n \in 1..Len(all) :
                    /\ Records(result)[i].classifiers = all[n][6]
                    /\ Records(result)[i].variant_of =
                          [k \in 1..Len(all[n][5]) |->
                              [traditional |-> all[n][5][k][1],
                               simplified |-> all[n][5][k][2],
                               pinyin |-> all[n][5][k][3]]]


-----------------------------------------------------------------------------
(* Vocabulary of the properties of the parser *)

\* parseMeanings has returned for the definition body in text.
ParsedBody == pc = "parsed" /\ text.kind = "body"

\* parseVariant has returned for the headword expression in text.
ParsedExpression == pc = "parsed" /\ text.kind = "expression"

\* The non-empty trimmed segments of a definition body, in order.
SegmentsOf(body) ==
    LET pieces == Split(body, "/")
    IN SelectSeq([i \in 1..Len(pieces) |-> Trim(pieces[i])],
                 LAMBDA seg : seg /= <<>>)

\* The segment is one variant reference and nothing else: the marker, a
\* headword, an optional alternative, an optional closed pinyin bracket.
IsVariantReference(seg) ==
    /\ StartsAt(seg, VariantMarker, 1)
    /\ IdeographRun(seg, Len(VariantMarker) + 1) > Len(VariantMarker) + 1
    /\ LET q == Alternative(seg, IdeographRun(seg, Len(VariantMarker) + 1))
       IN \/ q = Len(seg) + 1
          \/ At(seg, q) = "[" /\ FindChar(seg, "]", q + 1) = Len(seg)

\* The segment is one classifier list and nothing else.
IsClassifierList(seg) ==
    /\ StartsAt(seg, ClassifierMarker, 1)
    /\ ClassifierItemEnd(seg, Len(ClassifierMarker) + 1) /= 0
    /\ ClassifierItemsEnd(seg, Len(ClassifierMarker) + 1) = Len(seg) + 1

\* The segment holds a variant-reference or classifier-list pattern.
HoldsPattern(seg) ==
    \E i \in 1..Len(seg) :
        \/ StartsAt(seg, VariantMarker, i)
        \/ /\ StartsAt(seg, ClassifierMarker, i)
           /\ ClassifierItemEnd(seg, i + Len(ClassifierMarker)) /= 0

-----------------------------------------------------------------------------
(* C22 *)

\* C22: every segment that holds a variant-reference or classifier-list
\* pattern inside longer text is one of the meanings parseMeanings returns,
\* with its full text, whether or not the text after the marker is a
\* headword expression.
C22_EmbeddedPatternKept ==
    ParsedBody =>
        \A k \in 1..Len(SegmentsOf(text.value)) :
            LET seg == SegmentsOf(text.value)[k]
            IN (HoldsPattern(seg) /\ ~IsVariantReference(seg) /\ ~IsClassifierList(seg))
                   => \E m \in 1..Len(parsed.value.meanings) :
                          parsed.value.meanings[m] = seg

-----------------------------------------------------------------------------
(* C23 *)

-----------------------------------------------------------------------------
(* C29 *)

\* The members of a sequence of triples, each once, in first-seen order,
\* two triples being the same when they are equal.
RECURSIVE DistinctInOrder(_, _, _)
DistinctInOrder(triples, n, seen) ==
    IF n > Len(triples) THEN seen
    ELSE DistinctInOrder(triples, n + 1,
             IF \E i \in 1..Len(seen) : seen[i] = triples[n] THEN seen
             ELSE Append(seen, triples[n]))

\* The variant references the parser recognizes in the segments of a body:
\* the first match of each segment, when its expression is not empty.
RECURSIVE RecognizedVariants(_, _)
RecognizedVariants(segments, n) ==
    IF n > Len(segments) THEN <<>>
    ELSE LET matches == MatchVariantOf(segments[n], 1)
             expression == Substring(matches[1], Len(VariantMarker))
         IN (IF matches /= <<>> /\ expression /= <<>>
             THEN <<ParseVariant(expression).value>> ELSE <<>>)
            \o RecognizedVariants(segments, n + 1)

\* C29: variant_of holds every variant reference recognized in the segments
\* of the body exactly once, in first-seen order, two triples being the same
\* only when their three fields are equal.
C29_RefsDistinctInOrder ==
    ParsedBody =>
        parsed.value.variant_of =
            DistinctInOrder(RecognizedVariants(SegmentsOf(text.value), 1), 1, <<>>)


-----------------------------------------------------------------------------
(* C30 *)

\* The headword part of an expression: what stands before the bracket.
HeadwordPart(e) == SubSeq(e, 1, FindChar(e, "[", 1) - 1)

\* What stands in the bracket of an expression: the text after the '[' up
\* to the ']', or to the end when the bracket is left open.
BracketContent(e) ==
    LET open == FindChar(e, "[", 1)
    IN SubSeq(e, open + 1, FindChar(e, "]", open + 1) - 1)

\* The expression is a headword, an optional alternative and an optional
\* bracket: one '[' at most, and nothing after the ']'.
IsHeadwordExpression(e) ==
    LET open == FindChar(e, "[", 1)
    IN /\ FindChar(e, "[", open + 1) > Len(e)
       /\ FindChar(e, "]", 1) >= Len(e)
       /\ FindChar(e, "]", 1) > Len(e) \/ FindChar(e, "]", 1) > open

\* A tone-numbered syllable stands at i..j of c: letters or colons, as many
\* as there are in a row, and then a digit.
SyllableAt(c, i, j) ==
    /\ i < j
    /\ c[j] \in Digit
    /\ \A k \in i..(j - 1) : c[k] \in Letter
    /\ i = 1 \/ c[i - 1] \notin Letter

\* The places of the syllables of c.
SyllablePlaces(c) ==
    {place \in (1..Len(c)) \X (1..Len(c)) : SyllableAt(c, place[1], place[2])}

\* The k-th syllable of c from the left.
SyllableNumber(c, k) ==
    LET place == CHOOSE p \in SyllablePlaces(c) :
                     Cardinality({r \in SyllablePlaces(c) : r[1] < p[1]}) = k - 1
    IN SubSeq(c, place[1], place[2])

\* C30: for a non-empty headword expression parseVariant returns a triple
\* whose first field is the headword before any '|', whose second field is
\* the alternative after the '|' and the first field when there is none, and
\* whose pinyin is the syllables of the bracket from left to right joined by
\* single spaces, null when there is no bracket or no syllable in it; for
\* the empty expression it returns no triple.
C30_TripleOfExpression ==
    (ParsedExpression /\ IsHeadwordExpression(text.value)) =>
        IF text.value = <<>> THEN parsed.kind = "undefined"
        ELSE LET names == Split(HeadwordPart(text.value), "|")
                 content == BracketContent(text.value)
                 count == Cardinality(SyllablePlaces(content))
             IN /\ parsed.kind = "triple"
                /\ parsed.value[1] = names[1]
                /\ parsed.value[2] = IF Len(names) = 1 \/ names[2] = <<>>
                                     THEN parsed.value[1] ELSE names[2]
                /\ IF count = 0 THEN parsed.value[3] = NullString
                   ELSE /\ parsed.value[3] /= NullString
                        /\ Split(parsed.value[3], " ") =
                               [k \in 1..count |-> SyllableNumber(content, k)]

\* parseVariant has returned a triple for an expression without alternative
\* whose bracket holds two syllables.
C30_Witness ==
    /\ ParsedExpression
    /\ IsHeadwordExpression(text.value)
    /\ Len(Split(HeadwordPart(text.value), "|")) = 1
    /\ Cardinality(SyllablePlaces(BracketContent(text.value))) = 2
    /\ parsed.kind = "triple"
    /\ parsed.value[2] = parsed.value[1]
    /\ parsed.value[3] = JiaJuPinyin


====
